---------------------------- MODULE Spec2Model ----------------------------
(***************************************************************************)
(* Model of the stock API: the name search of routes/stockRoutes.js        *)
(* (router.get('/search'), calculateSimilarity, levenshteinDistance), the  *)
(* moving average and the trend classifier of                              *)
(* services/stockPriceService.js, and the start-up and the routing of      *)
(* server.js.                                                              *)
(*                                                                         *)
(* Strings are sequences of one-character strings.  JavaScript numbers     *)
(* that are fractions are exact rationals <<numerator, denominator>> with  *)
(* a positive denominator; the doubles of the program order the scores of  *)
(* the pools below the same way.                                           *)
(*                                                                         *)
(* The collection is read-only while a request runs, StockRow.findOne      *)
(* answers with the first matching document in natural order, and the      *)
(* database does not fail (the handler's catch branch, status 500, is not  *)
(* modelled).                                                              *)
(***************************************************************************)
EXTENDS Integers, Sequences, FiniteSets, TLC

VARIABLES
    corpus,            \* the StockRow collection, in natural (insertion) order
    name,              \* req.query.name of the search request
    pc,                \* where the search handler stands
    searchName,        \* name.trim()
    stock,             \* the handler's variable stock
    allStocks,         \* the result of StockRow.find({}).lean()
    response,          \* what the handler answered
    findOneCalls,      \* StockRow.findOne queries issued by the request
    findCalls,         \* StockRow.find queries issued by the request
    simCalls,          \* calculateSimilarity calls made by the request
    str1, str2,        \* the two arguments of calculateSimilarity / levenshteinDistance
    simDone, simResult,\* calculateSimilarity has returned, and what it returned
    simLevCalls,       \* how often that call ran levenshteinDistance
    levDone, levResult,\* levenshteinDistance has returned, and what it returned
    dma50, dma200, currentPrice,   \* the arguments of getTrendAnalysis
    trendDone, trendResult,        \* getTrendAnalysis has returned, and its result
    trendComparisons, trendDivisions, \* the > and / it evaluated on the way
    priceData, period,             \* the arguments of calculateDMA
    dmaDone, dmaResult,            \* calculateDMA has returned, and what it returned
    dbConnect,         \* the promise of connectDB(): pending, resolved or rejected
    http,              \* app.listen: off, binding (called) or listening
    exited, exitCode,  \* process.exit has run, and with which code
    sig,               \* the signal whose handler awaits connection.close()
    req,               \* the HTTP request being served
    route,             \* the handler the request was dispatched to
    reply              \* what a handler other than the name search answered

simVars == <<str1, str2, simDone, simResult, simLevCalls, levDone, levResult>>

searchVars == <<corpus, name, pc, searchName, stock, allStocks, response,
                findOneCalls, findCalls, simCalls>>

trendVars == <<dma50, dma200, currentPrice, trendDone, trendResult,
               trendComparisons, trendDivisions>>

dmaVars == <<priceData, period, dmaDone, dmaResult>>

serverVars == <<dbConnect, http, exited, exitCode, sig, req, route, reply>>

vars == <<searchVars, simVars, trendVars, dmaVars, serverVars>>

(***************************************************************************)
(* Bounds of the model.                                                    *)
(***************************************************************************)
MaxCorpus == 2     \* most records in the collection

MaxLen == 4        \* longest argument of calculateSimilarity in SimSpec

LevMaxLen == 3     \* longest argument of levenshteinDistance in LevSpec

MaxSeries == 3     \* longest price series in DmaSpec

MaxPeriod == 3     \* longest averaging period in DmaSpec

(***************************************************************************)
(* Numbers.                                                                *)
(***************************************************************************)
Max(a, b) == IF a >= b THEN a ELSE b

Min3(a, b, c) == IF a <= b /\ a <= c THEN a ELSE IF b <= c THEN b ELSE c

RatLess(x, y) == x[1] * y[2] < y[1] * x[2]

RatEq(x, y) == x[1] * y[2] = y[1] * x[2]

RatAdd(x, y) == <<x[1] * y[2] + y[1] * x[2], x[2] * y[2]>>

RatSub(x, y) == <<x[1] * y[2] - y[1] * x[2], x[2] * y[2]>>

RatMul(x, y) == <<x[1] * y[1], x[2] * y[2]>>

RatMin(x, y) == IF RatLess(y, x) THEN y ELSE x

(***************************************************************************)
(* Strings.                                                                *)
(***************************************************************************)
StringsOver(chars, n) == UNION {[1..k -> chars] : k \in 0..n}

IsWhitespace(c) == c = " "

\* String.prototype.includes: s contains t as a contiguous run
includes(s, t) ==
    \E i \in 0..(Len(s) - Len(t)) : SubSeq(s, i + 1, i + Len(t)) = t

\* String.prototype.split(/\s+/): the pieces between maximal whitespace runs;
\* a leading or trailing run leaves an empty piece at that end
RECURSIVE SplitFrom(_, _, _, _)
SplitFrom(s, i, words, cur) ==
    IF i > Len(s) THEN Append(words, cur)
    ELSE IF IsWhitespace(s[i])
         THEN IF i > 1 /\ IsWhitespace(s[i - 1])
              THEN SplitFrom(s, i + 1, words, cur)
              ELSE SplitFrom(s, i + 1, Append(words, cur), <<>>)
         ELSE SplitFrom(s, i + 1, words, Append(cur, s[i]))

split(s) == SplitFrom(s, 1, <<>>, <<>>)

(***************************************************************************)
(* levenshteinDistance: the matrix is filled row by row (rows follow str2, *)
(* columns str1); a row is the sequence of its cells, column j at j + 1.   *)
(***************************************************************************)
\* mutant: the deletion case reads matrix[i][j - 1] like the insertion case
LevCellNoDeletion(a, b, i, j, prev, row) ==
    IF b[i] = a[j] THEN prev[j]
    ELSE Min3(prev[j] + 1, row[j] + 1, row[j] + 1)

\* matrix[i][j] from row i - 1 (prev) and the cells of row i filled so far
LevCell(a, b, i, j, prev, row) ==
    IF b[i] = a[j] THEN prev[j]
    ELSE Min3(prev[j] + 1, row[j] + 1, prev[j + 1] + 1)

RECURSIVE LevFillRow(_, _, _, _, _, _)
LevFillRow(a, b, i, j, prev, row) ==
    IF j > Len(a) THEN row
    ELSE LevFillRow(a, b, i, j + 1, prev,
                    Append(row, LevCell(a, b, i, j, prev, row)))

RECURSIVE LevRows(_, _, _, _)
LevRows(a, b, i, prev) ==
    IF i > Len(b) THEN prev
    ELSE LevRows(a, b, i + 1, LevFillRow(a, b, i, 1, prev, <<i>>))

levenshteinDistance(a, b) ==
    LevRows(a, b, 1, [j \in 1..(Len(a) + 1) |-> j - 1])[Len(a) + 1]

(***************************************************************************)
(* calculateSimilarity                                                     *)
(***************************************************************************)
\* the forEach over words1: how many of them some word of words2 contains
\* or is contained in
RECURSIVE CountWordMatches(_, _, _)
CountWordMatches(words1, words2, k) ==
    IF k > Len(words1) THEN 0
    ELSE (IF \E n \in 1..Len(words2) :
                 includes(words2[n], words1[k]) \/ includes(words1[k], words2[n])
          THEN 1 ELSE 0)
         + CountWordMatches(words1, words2, k + 1)

\* The result carries the returned score (value) and how many times
\* levenshteinDistance was called on the way (levCalls).
SimilarityOf(s1, s2, capped) ==
    LET maxLen == Max(Len(s1), Len(s2))
        distance == levenshteinDistance(s1, s2)
        similarity == RatSub(<<1, 1>>, <<distance, maxLen>>)
        words1 == split(s1)
        words2 == split(s2)
        wordMatches == CountWordMatches(words1, words2, 1)
        wordMatchBonus ==
            RatMul(<<wordMatches, Max(Len(words1), Len(words2))>>, <<3, 10>>)
        total == RatAdd(similarity, wordMatchBonus)
    IN  [value |-> IF capped THEN RatMin(<<1, 1>>, total) ELSE total,
         levCalls |-> 1]

\* mutant: the empty-string check comes before the equality check
calculateSimilarityEmptyFirst(s1, s2) ==
    IF Len(s1) = 0 \/ Len(s2) = 0 THEN [value |-> <<0, 1>>, levCalls |-> 0]
    ELSE IF s1 = s2 THEN [value |-> <<1, 1>>, levCalls |-> 0]
    ELSE IF includes(s1, s2) \/ includes(s2, s1)
         THEN [value |-> <<8, 10>>, levCalls |-> 0]
    ELSE SimilarityOf(s1, s2, TRUE)

\* mutant: the sum is returned without Math.min(1, ...)
calculateSimilarityNoCap(s1, s2) ==
    IF s1 = s2 THEN [value |-> <<1, 1>>, levCalls |-> 0]
    ELSE IF Len(s1) = 0 \/ Len(s2) = 0 THEN [value |-> <<0, 1>>, levCalls |-> 0]
    ELSE IF includes(s1, s2) \/ includes(s2, s1)
         THEN [value |-> <<8, 10>>, levCalls |-> 0]
    ELSE SimilarityOf(s1, s2, FALSE)

calculateSimilarity(s1, s2) ==
    IF s1 = s2 THEN [value |-> <<1, 1>>, levCalls |-> 0]
    ELSE IF Len(s1) = 0 \/ Len(s2) = 0 THEN [value |-> <<0, 1>>, levCalls |-> 0]
    ELSE IF includes(s1, s2) \/ includes(s2, s1)
         THEN [value |-> <<8, 10>>, levCalls |-> 0]
    ELSE LET maxLen == Max(Len(s1), Len(s2))
             distance == levenshteinDistance(s1, s2)
             similarity == RatSub(<<1, 1>>, <<distance, maxLen>>)
             words1 == split(s1)
             words2 == split(s2)
             wordMatches == CountWordMatches(words1, words2, 1)
             wordMatchBonus ==
                 RatMul(<<wordMatches, Max(Len(words1), Len(words2))>>, <<3, 10>>)
         IN  [value |-> RatMin(<<1, 1>>, RatAdd(similarity, wordMatchBonus)),
              levCalls |-> 1]

(***************************************************************************)
(* The search handler, router.get('/search').                              *)
(***************************************************************************)
\* String.prototype.toLowerCase, for the letters the model uses
toLowerCaseChar(c) ==
    CASE c = "A" -> "a"
      [] c = "B" -> "b"
      [] c = "S" -> "s"
      [] c = "T" -> "t"
      [] OTHER -> c

toLowerCase(s) == [i \in 1..Len(s) |-> toLowerCaseChar(s[i])]

\* String.prototype.trim
RECURSIVE trimStart(_)
trimStart(s) ==
    IF Len(s) > 0 /\ IsWhitespace(s[1]) THEN trimStart(Tail(s)) ELSE s

RECURSIVE trimEnd(_)
trimEnd(s) ==
    IF Len(s) > 0 /\ IsWhitespace(s[Len(s)])
    THEN trimEnd(SubSeq(s, 1, Len(s) - 1)) ELSE s

trim(s) == trimEnd(trimStart(s))

\* the characters of the class [.*+?^${}()|[\]\\]
RegexSpecials ==
    {".", "*", "+", "?", "^", "$", "{", "}", "(", ")", "|", "[", "]", "\\"}

\* mutant: the query goes into the pattern as it is
escapeRegExpNone(s) == s

\* s.replace(/[.*+?^${}()|[\]\\]/g, '\\$&')
RECURSIVE escapeRegExp(_)
escapeRegExp(s) ==
    IF Len(s) = 0 THEN <<>>
    ELSE (IF s[1] \in RegexSpecials THEN <<"\\", s[1]>> ELSE <<s[1]>>)
         \o escapeRegExp(Tail(s))

\* The atoms of a pattern made of literals, escaped characters, dots and
\* the anchors: <<"lit", c>> matches the character c, <<"any">> any
\* character, <<"bol">> the start of the input and <<"eol">> its end.
RECURSIVE RegexAtoms(_)
RegexAtoms(p) ==
    IF Len(p) = 0 THEN <<>>
    ELSE IF p[1] = "\\" /\ Len(p) >= 2
         THEN <<<<"lit", p[2]>>>> \o RegexAtoms(SubSeq(p, 3, Len(p)))
    ELSE IF p[1] = "." THEN <<<<"any">>>> \o RegexAtoms(Tail(p))
    ELSE IF p[1] = "^" THEN <<<<"bol">>>> \o RegexAtoms(Tail(p))
    ELSE IF p[1] = "$" THEN <<<<"eol">>>> \o RegexAtoms(Tail(p))
    ELSE <<<<"lit", p[1]>>>> \o RegexAtoms(Tail(p))

\* new RegExp(pattern, 'i')
RegExpI(pattern) == RegexAtoms(pattern)

\* the atoms from the k-th on match s from position pos + 1 on; letters
\* match whatever their case (the i flag)
RECURSIVE AtomsMatchAt(_, _, _, _)
AtomsMatchAt(atoms, k, s, pos) ==
    IF k > Len(atoms) THEN TRUE
    ELSE IF atoms[k][1] = "bol" THEN pos = 0 /\ AtomsMatchAt(atoms, k + 1, s, pos)
    ELSE IF atoms[k][1] = "eol"
         THEN pos = Len(s) /\ AtomsMatchAt(atoms, k + 1, s, pos)
    ELSE /\ pos < Len(s)
         /\ \/ atoms[k][1] = "any"
            \/ /\ atoms[k][1] = "lit"
               /\ toLowerCaseChar(atoms[k][2]) = toLowerCaseChar(s[pos + 1])
         /\ AtomsMatchAt(atoms, k + 1, s, pos + 1)

\* regex.test(s)
RegexTest(re, s) == \E from \in 0..Len(s) : AtomsMatchAt(re, 1, s, from)

NoDoc == [k \in {} |-> 0]

NotFound == [found |-> FALSE, doc |-> NoDoc]

\* mutant: the last matching document instead of the first
findOneLast(docs, re) ==
    LET hits == {i \in 1..Len(docs) : RegexTest(re, docs[i]["Name"])}
    IN  IF hits = {} THEN NotFound
        ELSE [found |-> TRUE,
              doc |-> docs[CHOOSE i \in hits : \A j \in hits : j <= i]]

\* StockRow.findOne({ Name: re }): the first document, in natural order,
\* whose Name matches
findOne(docs, re) ==
    LET hits == {i \in 1..Len(docs) : RegexTest(re, docs[i]["Name"])}
    IN  IF hits = {} THEN NotFound
        ELSE [found |-> TRUE,
              doc |-> docs[CHOOSE i \in hits : \A j \in hits : i <= j]]

\* { ...doc, [key]: value }
WithField(doc, key, value) ==
    [k \in DOMAIN doc \cup {key} |-> IF k = key THEN value ELSE doc[k]]

\* delete doc[key]
DeleteField(doc, key) == [k \in DOMAIN doc \ {key} |-> doc[k]]

\* allStocks.map(...): every document with its score under "similarity"
stocksWithScore(docs, query) ==
    [i \in 1..Len(docs) |->
        WithField(docs[i], "similarity",
                  calculateSimilarity(toLowerCase(query),
                                      toLowerCase(docs[i]["Name"])).value)]

RemoveAt(seq, i) == SubSeq(seq, 1, i - 1) \o SubSeq(seq, i + 1, Len(seq))

\* mutant: among equal scores the later document comes first
RECURSIVE sortBySimilarityUnstable(_)
sortBySimilarityUnstable(items) ==
    IF Len(items) = 0 THEN <<>>
    ELSE LET best == CHOOSE i \in 1..Len(items) :
                        /\ \A j \in 1..Len(items) :
                              ~RatLess(items[i]["similarity"], items[j]["similarity"])
                        /\ \A j \in (i + 1)..Len(items) :
                              RatLess(items[j]["similarity"], items[i]["similarity"])
         IN  <<items[best]>> \o sortBySimilarityUnstable(RemoveAt(items, best))

\* items.sort((a, b) => b.similarity - a.similarity): a stable sort, highest
\* score first, equal scores in their original order
RECURSIVE sortBySimilarity(_)
sortBySimilarity(items) ==
    IF Len(items) = 0 THEN <<>>
    ELSE LET best == CHOOSE i \in 1..Len(items) :
                        /\ \A j \in 1..Len(items) :
                              ~RatLess(items[i]["similarity"], items[j]["similarity"])
                        /\ \A j \in 1..(i - 1) :
                              RatLess(items[j]["similarity"], items[i]["similarity"])
         IN  <<items[best]>> \o sortBySimilarity(RemoveAt(items, best))

\* the query parameter: absent, or a string
NoName == [present |-> FALSE, s |-> <<>>]

NameOf(s) == [present |-> TRUE, s |-> s]

NoResponse == [status |-> 0, data |-> NoDoc, searchQuery |-> <<>>]

\* res.status(400).json(...) and res.status(404).json(...)
ErrorResponse(code) == [status |-> code, data |-> NoDoc, searchQuery |-> <<>>]

\* mutant: __v stays in the answer
SuccessResponseKeepsVersion(doc, query) ==
    [status |-> 200,
     data |-> IF "similarity" \in DOMAIN doc THEN DeleteField(doc, "similarity")
              ELSE doc,
     searchQuery |-> query]

\* lines 79-92: the found document without __v and without similarity
SuccessResponse(doc, query) ==
    LET stockData == DeleteField(doc, "__v")
    IN  [status |-> 200,
         data |-> IF "similarity" \in DOMAIN stockData
                  THEN DeleteField(stockData, "similarity")
                  ELSE stockData,
         searchQuery |-> query]

\* mutant: a request whose name is only whitespace is searched for
IsBlankMissingOnly(n) == ~n.present \/ Len(n.s) = 0

\* !name || name.trim() === ''
IsBlank(n) == ~n.present \/ Len(n.s) = 0 \/ Len(trim(n.s)) = 0

\* mutant: the floor admits a score of exactly 0.3
AboveFloorInclusive(score) == ~RatLess(score, <<3, 10>>)

\* bestMatch.similarity > 0.3
AboveFloor(score) == RatLess(<<3, 10>>, score)

\* lines 21-39: validation, then the exact query is issued
SearchRequest ==
    /\ pc = "start"
    /\ IF IsBlank(name)
       THEN /\ response' = ErrorResponse(400)
            /\ pc' = "done"
            /\ UNCHANGED <<searchName, stock, findOneCalls>>
       ELSE /\ searchName' = trim(name.s)
            /\ stock' = findOne(corpus,
                           RegExpI(<<"^">> \o escapeRegExp(trim(name.s)) \o <<"$">>))
            /\ findOneCalls' = findOneCalls + 1
            /\ pc' = "awaitExact"
            /\ UNCHANGED response
    /\ UNCHANGED <<corpus, name, allStocks, findCalls, simCalls>>
    /\ UNCHANGED <<simVars, trendVars, dmaVars, serverVars>>

\* lines 41-46 and 72-92: the exact query has answered
AfterExact ==
    /\ pc = "awaitExact"
    /\ IF stock.found
       THEN /\ response' = SuccessResponse(stock.doc, searchName)
            /\ pc' = "done"
            /\ UNCHANGED <<stock, findOneCalls>>
       ELSE /\ stock' = findOne(corpus, RegExpI(escapeRegExp(searchName)))
            /\ findOneCalls' = findOneCalls + 1
            /\ pc' = "awaitPartial"
            /\ UNCHANGED response
    /\ UNCHANGED <<corpus, name, searchName, allStocks, findCalls, simCalls>>
    /\ UNCHANGED <<simVars, trendVars, dmaVars, serverVars>>

\* lines 48-51 and 72-92: the partial query has answered
AfterPartial ==
    /\ pc = "awaitPartial"
    /\ IF stock.found
       THEN /\ response' = SuccessResponse(stock.doc, searchName)
            /\ pc' = "done"
            /\ UNCHANGED <<allStocks, findCalls>>
       ELSE /\ allStocks' = corpus
            /\ findCalls' = findCalls + 1
            /\ pc' = "awaitAll"
            /\ UNCHANGED response
    /\ UNCHANGED <<corpus, name, searchName, stock, findOneCalls, simCalls>>
    /\ UNCHANGED <<simVars, trendVars, dmaVars, serverVars>>

\* lines 53-92: all documents have arrived; score, sort, take the best
AfterFindAll ==
    /\ pc = "awaitAll"
    /\ LET sorted == sortBySimilarity(stocksWithScore(allStocks, searchName))
           accepted == Len(sorted) > 0 /\ AboveFloor(sorted[1]["similarity"])
           bestMatch == IF accepted THEN DeleteField(sorted[1], "similarity")
                        ELSE NoDoc
       IN  /\ stock' = [found |-> accepted, doc |-> bestMatch]
           /\ response' = IF accepted THEN SuccessResponse(bestMatch, searchName)
                          ELSE ErrorResponse(404)
    /\ simCalls' = simCalls + Len(allStocks)
    /\ pc' = "done"
    /\ UNCHANGED <<corpus, name, searchName, allStocks, findOneCalls, findCalls>>
    /\ UNCHANGED <<simVars, trendVars, dmaVars, serverVars>>

(***************************************************************************)
(* getTrendAnalysis.  A JavaScript value is [t, v]: undefined, null, NaN, a *)
(* boolean (v is 1 or 0) or a number, whose v counts thousandths.          *)
(***************************************************************************)
Undefined == [t |-> "undefined", v |-> 0]

Null == [t |-> "null", v |-> 0]

NaN == [t |-> "nan", v |-> 0]

Num(thousandths) == [t |-> "num", v |-> thousandths]

Bool(b) == [t |-> "bool", v |-> IF b THEN 1 ELSE 0]

\* !x
IsFalsy(x) == x.t \in {"undefined", "null", "nan"} \/ (x.t = "num" /\ x.v = 0)

Abs(n) == IF n < 0 THEN 0 - n ELSE n

Sign(n) == IF n < 0 THEN 0 - 1 ELSE 1

\* x.toFixed(2): the hundredths nearest to x, a tie going away from zero
toFixed2(x) == Sign(x.v) * ((Abs(x.v) + 5) \div 10)

\* parseFloat of a string of hundredths
parseFloatHundredths(h) == Num(h * 10)

\* mutant: the quotient is cut to hundredths of a percent, not rounded
PercentDiffTruncated(a, b) ==
    LET x == Abs(a.v - b.v)
        d == Abs(b.v)
        q1 == (x * 100) \div d
        r1 == (x * 100) % d
        q2 == (r1 * 100) \div d
        hundredths == q1 * 100 + q2
    IN  parseFloatHundredths(Sign(a.v - b.v) * Sign(b.v) * hundredths)

\* mutant: the difference is taken relative to the first value
PercentDiffWrongBase(a, b) ==
    LET x == Abs(a.v - b.v)
        d == Abs(a.v)
        q1 == (x * 100) \div d
        r1 == (x * 100) % d
        q2 == (r1 * 100) \div d
        r2 == (r1 * 100) % d
        hundredths == q1 * 100 + q2 + (IF 2 * r2 >= d THEN 1 ELSE 0)
    IN  parseFloatHundredths(Sign(a.v - b.v) * Sign(a.v) * hundredths)

\* parseFloat(((a - b) / b * 100).toFixed(2)): the quotient is rounded to
\* hundredths of a percent, a tie going away from zero
PercentDiff(a, b) ==
    LET x == Abs(a.v - b.v)
        d == Abs(b.v)
        q1 == (x * 100) \div d
        r1 == (x * 100) % d
        q2 == (r1 * 100) \div d
        r2 == (r1 * 100) % d
        hundredths == q1 * 100 + q2 + (IF 2 * r2 >= d THEN 1 ELSE 0)
    IN  parseFloatHundredths(Sign(a.v - b.v) * Sign(b.v) * hundredths)

\* mutant: the buy row is tried before the strong_buy row
TrendOfBuyFirst(above200, priceAbove50, priceAbove200) ==
    IF above200 /\ priceAbove200 THEN <<"bullish", "buy">>
    ELSE IF above200 /\ priceAbove50 /\ priceAbove200 THEN <<"bullish", "strong_buy">>
    ELSE IF above200 THEN <<"bullish", "weak_buy">>
    ELSE IF ~above200 /\ ~priceAbove50 /\ ~priceAbove200
         THEN <<"bearish", "strong_sell">>
    ELSE IF ~above200 /\ ~priceAbove200 THEN <<"bearish", "sell">>
    ELSE IF ~above200 THEN <<"bearish", "weak_sell">>
    ELSE <<"neutral", "hold">>

\* mutant: the bullish branch has no final catch-all row
TrendOfNoWeakBuy(above200, priceAbove50, priceAbove200) ==
    IF above200 /\ priceAbove50 /\ priceAbove200 THEN <<"bullish", "strong_buy">>
    ELSE IF above200 /\ priceAbove200 THEN <<"bullish", "buy">>
    ELSE IF ~above200 /\ ~priceAbove50 /\ ~priceAbove200
         THEN <<"bearish", "strong_sell">>
    ELSE IF ~above200 /\ ~priceAbove200 THEN <<"bearish", "sell">>
    ELSE IF ~above200 THEN <<"bearish", "weak_sell">>
    ELSE <<"neutral", "hold">>

\* lines 109-137
TrendOf(above200, priceAbove50, priceAbove200) ==
    IF above200 /\ priceAbove50 /\ priceAbove200 THEN <<"bullish", "strong_buy">>
    ELSE IF above200 /\ priceAbove200 THEN <<"bullish", "buy">>
    ELSE IF above200 THEN <<"bullish", "weak_buy">>
    ELSE IF ~above200 /\ ~priceAbove50 /\ ~priceAbove200
         THEN <<"bearish", "strong_sell">>
    ELSE IF ~above200 /\ ~priceAbove200 THEN <<"bearish", "sell">>
    ELSE IF ~above200 THEN <<"bearish", "weak_sell">>
    ELSE <<"neutral", "hold">>

\* mutant: only a missing moving average is insufficient data
InsufficientDataAveragesOnly(d50, d200, price) == IsFalsy(d50) \/ IsFalsy(d200)

\* !dma50 || !dma200 || !currentPrice
InsufficientData(d50, d200, price) ==
    IsFalsy(d50) \/ IsFalsy(d200) \/ IsFalsy(price)

\* The result object, with the comparisons and divisions evaluated.
getTrendAnalysis(d50, d200, price) ==
    IF InsufficientData(d50, d200, price)
    THEN [result |-> [trend |-> "unknown",
                      signal |-> "insufficient_data",
                      dma50 |-> d50,
                      dma200 |-> d200,
                      currentPrice |-> price,
                      dma50Above200 |-> Null,
                      priceAbove50 |-> Null,
                      priceAbove200 |-> Null],
          comparisons |-> 0,
          divisions |-> 0]
    ELSE LET dma50Above200 == d50.v > d200.v
             priceAbove50 == price.v > d50.v
             priceAbove200 == price.v > d200.v
             ts == TrendOf(dma50Above200, priceAbove50, priceAbove200)
         IN  [result |-> [trend |-> ts[1],
                          signal |-> ts[2],
                          dma50 |-> parseFloatHundredths(toFixed2(d50)),
                          dma200 |-> parseFloatHundredths(toFixed2(d200)),
                          currentPrice |-> parseFloatHundredths(toFixed2(price)),
                          dma50Above200 |-> Bool(dma50Above200),
                          priceAbove50 |-> Bool(priceAbove50),
                          priceAbove200 |-> Bool(priceAbove200),
                          dma50PercentDiff |-> PercentDiff(d50, d200),
                          priceVs50Percent |-> PercentDiff(price, d50),
                          priceVs200Percent |-> PercentDiff(price, d200)],
              comparisons |-> 3,
              divisions |-> 3]

NoResult == [k \in {} |-> 0]

\* no call of getTrendAnalysis is in progress
TrendIdle ==
    /\ dma50 = Undefined
    /\ dma200 = Undefined
    /\ currentPrice = Undefined
    /\ trendDone = FALSE
    /\ trendResult = NoResult
    /\ trendComparisons = 0
    /\ trendDivisions = 0

(***************************************************************************)
(* calculateDMA.  priceData is absent (undefined or null) or an array of   *)
(* {date, close} entries in time order; only close is read.                *)
(***************************************************************************)
AbsentData == [present |-> FALSE, items |-> <<>>]

PriceData(items) == [present |-> TRUE, items |-> items]

\* arr.slice(begin)
slice(arr, begin) ==
    LET from == IF begin < 0
                THEN Max(Len(arr) + begin, 0)
                ELSE IF begin < Len(arr) THEN begin ELSE Len(arr)
    IN  SubSeq(arr, from + 1, Len(arr))

\* arr.reduce((acc, item) => acc + item.close, acc)
RECURSIVE reduceClose(_, _)
reduceClose(arr, acc) ==
    IF arr = <<>> THEN acc ELSE reduceClose(Tail(arr), acc + Head(arr).close)

NullDMA == [null |-> TRUE, value |-> <<0, 1>>]

\* mutant: the average is taken over the oldest entries
calculateDMAOldest(data, n) ==
    IF ~data.present \/ Len(data.items) < n
    THEN NullDMA
    ELSE LET recentPrices == SubSeq(data.items, 1, n)
             sum == reduceClose(recentPrices, 0)
         IN  [null |-> FALSE, value |-> <<sum, n>>]

\* The result is null or the quotient sum / period.
calculateDMA(data, n) ==
    IF ~data.present \/ Len(data.items) < n
    THEN NullDMA
    ELSE LET recentPrices == slice(data.items, 0 - n)
             sum == reduceClose(recentPrices, 0)
         IN  [null |-> FALSE, value |-> <<sum, n>>]

\* no call of calculateDMA is in progress
DmaIdle ==
    /\ priceData = AbsentData
    /\ period = 1
    /\ dmaDone = FALSE
    /\ dmaResult = NullDMA

(***************************************************************************)
(* server.js and the router of routes/stockRoutes.js.  A path is the       *)
(* sequence of its segments, each a string; Express matches route literals *)
(* whatever the case of the letters and tries routes in the order of their *)
(* registration.  The query of a request is its name parameter.            *)
(***************************************************************************)
SegApi == <<"a", "p", "i">>

SegStock == <<"s", "t", "o", "c", "k">>

SegSearch == <<"s", "e", "a", "r", "c", "h">>

SegHealth == <<"h", "e", "a", "l", "t", "h">>

SegTop10 == <<"t", "o", "p", "1", "0">>

NoRequest == [method |-> "none", path |-> <<>>, name |-> NoName]

Request(method, path, n) == [method |-> method, path |-> path, name |-> n]

\* a route literal against one segment of the path
SegmentIs(seg, literal) == toLowerCase(seg) = literal

\* The routes of the router, in registration order: '/search', '/:ticker'
\* and '/'.  "none" hands the request back to the application.
RouterRoute(method, rest) ==
    IF method # "GET" THEN "none"
    ELSE IF Len(rest) = 1 /\ SegmentIs(rest[1], SegSearch) THEN "search"
    ELSE IF Len(rest) = 1 /\ Len(rest[1]) > 0 THEN "ticker"
    ELSE IF Len(rest) = 0 THEN "list"
    ELSE "none"

\* The middleware chain of the application: '/health', the router mounted
\* at '/api/stock', '/', and the 404 handler.
AppRoute(method, path) ==
    LET mounted == /\ Len(path) >= 2
                   /\ SegmentIs(path[1], SegApi)
                   /\ SegmentIs(path[2], SegStock)
        inner == IF mounted THEN RouterRoute(method, SubSeq(path, 3, Len(path)))
                 ELSE "none"
    IN  IF method = "GET" /\ Len(path) = 1 /\ SegmentIs(path[1], SegHealth)
        THEN "health"
        ELSE IF inner # "none" THEN inner
        ELSE IF method = "GET" /\ Len(path) = 0 THEN "root"
        ELSE "notFound"

NoReply == [status |-> 0]

\* the endpoints the root endpoint names
RootEndpoints ==
    { "/health", "/api/stock/:ticker", "/api/stock/search?name=stockname",
      "/api/stock" }

\* the answers of the handlers that query nothing
ImmediateReply(to) ==
    IF to = "health" THEN [status |-> 200, message |-> "Server is running"]
    ELSE IF to = "root" THEN [status |-> 200, endpoints |-> RootEndpoints]
    ELSE IF to = "notFound" THEN [status |-> 404, error |-> "Route not found"]
    ELSE NoReply

TickerFields ==
    { "ticker", "Ticker", "TICKER", "symbol", "Symbol", "SYMBOL",
      "Stock Ticker", "Stock Symbol" }

\* StockRow.findOne({ $or: [{ ticker: re }, ...] }): the first document, in
\* natural order, one of whose ticker fields matches
findOneByTicker(docs, re) ==
    LET hits == {i \in 1..Len(docs) :
                    \E f \in TickerFields \cap DOMAIN docs[i] :
                        RegexTest(re, docs[i][f])}
    IN  IF hits = {} THEN NotFound
        ELSE [found |-> TRUE,
              doc |-> docs[CHOOSE i \in hits : \A j \in hits : i <= j]]

\* router.get('/:ticker'): the answer to a lookup of ticker
TickerReply(docs, ticker) ==
    IF Len(ticker) = 0 THEN [status |-> 400, error |-> "Ticker parameter is required"]
    ELSE LET found == findOneByTicker(docs, RegExpI(<<"^">> \o ticker \o <<"$">>))
         IN  IF ~found.found
             THEN [status |-> 404, error |-> "not found", ticker |-> ticker]
             ELSE [status |-> 200, data |-> DeleteField(found.doc, "__v")]

DefaultLimit == 100

DefaultSkip == 0

\* router.get('/'): find().limit(limit).skip(skip).lean() with the defaults
ListReply(docs) ==
    LET from == IF DefaultSkip < Len(docs) THEN DefaultSkip ELSE Len(docs)
        upto == IF from + DefaultLimit < Len(docs) THEN from + DefaultLimit
                ELSE Len(docs)
        stocks == SubSeq(docs, from + 1, upto)
    IN  [status |-> 200, count |-> Len(stocks), data |-> stocks]

\* process.exit has not run
Alive == ~exited

\* mutant: a failed connection is logged and the server is started anyway
ConnectFailsIgnored ==
    /\ Alive
    /\ dbConnect = "pending"
    /\ dbConnect' = "rejected"
    /\ http' = "binding"
    /\ UNCHANGED <<exited, exitCode, sig, req, route, reply>>
    /\ UNCHANGED <<searchVars, simVars, trendVars, dmaVars>>

\* connectDB rejects (it logs and rethrows the error of mongoose.connect);
\* the catch of startServer logs and calls process.exit(1)
ConnectFails ==
    /\ Alive
    /\ dbConnect = "pending"
    /\ dbConnect' = "rejected"
    /\ exited' = TRUE
    /\ exitCode' = 1
    /\ UNCHANGED <<http, sig, req, route, reply>>
    /\ UNCHANGED <<searchVars, simVars, trendVars, dmaVars>>

\* connectDB resolves; startServer goes on to call app.listen
ConnectSucceeds ==
    /\ Alive
    /\ dbConnect = "pending"
    /\ dbConnect' = "resolved"
    /\ http' = "binding"
    /\ UNCHANGED <<exited, exitCode, sig, req, route, reply>>
    /\ UNCHANGED <<searchVars, simVars, trendVars, dmaVars>>

\* the callback of app.listen: the port is bound
Listening ==
    /\ Alive
    /\ http = "binding"
    /\ http' = "listening"
    /\ UNCHANGED <<dbConnect, exited, exitCode, sig, req, route, reply>>
    /\ UNCHANGED <<searchVars, simVars, trendVars, dmaVars>>

\* SIGTERM or SIGINT arrives; its handler awaits mongoose.connection.close()
Signal ==
    /\ Alive
    /\ sig = "none"
    /\ \E s \in {"SIGTERM", "SIGINT"} : sig' = s
    /\ UNCHANGED <<dbConnect, http, exited, exitCode, req, route, reply>>
    /\ UNCHANGED <<searchVars, simVars, trendVars, dmaVars>>

\* the connection is closed; the handler calls process.exit(0)
CloseDone ==
    /\ Alive
    /\ sig # "none"
    /\ exited' = TRUE
    /\ exitCode' = 0
    /\ UNCHANGED <<dbConnect, http, sig, req, route, reply>>
    /\ UNCHANGED <<searchVars, simVars, trendVars, dmaVars>>

\* A request arrives and runs down the middleware chain to its handler; a
\* handler that queries nothing answers at once, the name search starts.
Dispatch(r) ==
    /\ Alive
    /\ http = "listening"
    /\ req = NoRequest
    /\ req' = r
    /\ route' = AppRoute(r.method, r.path)
    /\ reply' = ImmediateReply(AppRoute(r.method, r.path))
    /\ IF AppRoute(r.method, r.path) = "search"
       THEN name' = r.name /\ pc' = "start"
       ELSE UNCHANGED <<name, pc>>
    /\ UNCHANGED <<corpus, searchName, stock, allStocks, response,
                   findOneCalls, findCalls, simCalls>>
    /\ UNCHANGED <<dbConnect, http, exited, exitCode, sig>>
    /\ UNCHANGED <<simVars, trendVars, dmaVars>>

\* router.get('/:ticker'): the query has answered
TickerAnswer ==
    /\ Alive
    /\ route = "ticker"
    /\ reply.status = 0
    /\ reply' = TickerReply(corpus, req.path[3])
    /\ UNCHANGED <<dbConnect, http, exited, exitCode, sig, req, route>>
    /\ UNCHANGED <<searchVars, simVars, trendVars, dmaVars>>

\* router.get('/'): the query has answered
ListAnswer ==
    /\ Alive
    /\ route = "list"
    /\ reply.status = 0
    /\ reply' = ListReply(corpus)
    /\ UNCHANGED <<dbConnect, http, exited, exitCode, sig, req, route>>
    /\ UNCHANGED <<searchVars, simVars, trendVars, dmaVars>>

\* a step of the name search, while the process runs
SearchStep ==
    /\ Alive
    /\ route = "search"
    /\ SearchRequest \/ AfterExact \/ AfterPartial \/ AfterFindAll

\* the request has been answered; the server waits for the next one
Finish ==
    /\ Alive
    /\ req # NoRequest
    /\ reply.status # 0 \/ (route = "search" /\ pc = "done")
    /\ req' = NoRequest
    /\ route' = "none"
    /\ reply' = NoReply
    /\ name' = NoName
    /\ pc' = "idle"
    /\ searchName' = <<>>
    /\ stock' = NotFound
    /\ allStocks' = <<>>
    /\ response' = NoResponse
    /\ findOneCalls' = 0
    /\ findCalls' = 0
    /\ simCalls' = 0
    /\ UNCHANGED <<corpus, dbConnect, http, exited, exitCode, sig>>
    /\ UNCHANGED <<simVars, trendVars, dmaVars>>

\* the server has not been started
ServerIdle ==
    /\ dbConnect = "pending"
    /\ http = "off"
    /\ exited = FALSE
    /\ exitCode = 0
    /\ sig = "none"
    /\ req = NoRequest
    /\ route = "none"
    /\ reply = NoReply

(***************************************************************************)
(* Spec: one search request against a collection of at most MaxCorpus      *)
(* documents.  A document has a Name and further attributes; the names and *)
(* the queries come from pools that make every stage of the search happen. *)
(***************************************************************************)
NamePool ==
    { <<"A", "b">>, <<"a", "b">>, <<"a", ".">>, <<"b", "A", "b">>,
      <<"a", "a">>, <<"b">>, <<"b", "a">>, <<>> }

\* the attributes a document carries besides its Name
PayloadPool ==
    { [Ticker |-> "T1"],
      [Ticker |-> "T2", __v |-> 0, similarity |-> <<7, 1>>] }

Documents == {WithField(payload, "Name", n) : n \in NamePool, payload \in PayloadPool}

QueryPool ==
    { NoName, NameOf(<<>>), NameOf(<<" ">>), NameOf(<<" ", " ">>),
      NameOf(<<"a", "b">>), NameOf(<<" ", "a", "B", " ">>),
      NameOf(<<"a", ".">>), NameOf(<<"a", " ", "b">>) }

SimIdle ==
    /\ str1 = <<>>
    /\ str2 = <<>>
    /\ simDone = FALSE
    /\ simResult = <<0, 1>>
    /\ simLevCalls = 0
    /\ levDone = FALSE
    /\ levResult = 0

Init ==
    /\ corpus \in UNION {[1..n -> Documents] : n \in 0..MaxCorpus}
    /\ name \in QueryPool
    /\ pc = "start"
    /\ searchName = <<>>
    /\ stock = NotFound
    /\ allStocks = <<>>
    /\ response = NoResponse
    /\ findOneCalls = 0
    /\ findCalls = 0
    /\ simCalls = 0
    /\ SimIdle
    /\ TrendIdle
    /\ DmaIdle
    /\ ServerIdle

Next ==
    \/ SearchRequest
    \/ AfterExact
    \/ AfterPartial
    \/ AfterFindAll

Spec == Init /\ [][Next]_vars

(***************************************************************************)
(* SimSpec: calculateSimilarity as a pure function of two lower-cased      *)
(* strings.                                                                *)
(***************************************************************************)
SimChars == {"a", "b", " "}

SimStrings == StringsOver(SimChars, MaxLen)

TataMotors == <<"t","a","t","a"," ","m","o","t","o","r","s">>

TataMotorsLtd == TataMotors \o <<" ","l","t","d">>

SimExamples ==
    { <<TataMotors, TataMotorsLtd>>,
      <<<<"x","y","z">>, <<>>>>,
      <<<<"a","b","c">>, <<"a","b","c">>>> }

NoRat == <<0, 1>>

\* no search request is in progress
SearchIdle ==
    /\ corpus = <<>>
    /\ name = NoName
    /\ pc = "idle"
    /\ searchName = <<>>
    /\ stock = NotFound
    /\ allStocks = <<>>
    /\ response = NoResponse
    /\ findOneCalls = 0
    /\ findCalls = 0
    /\ simCalls = 0

SimInit ==
    /\ SearchIdle
    /\ \/ str1 \in SimStrings /\ str2 \in SimStrings
       \/ \E p \in SimExamples : str1 = p[1] /\ str2 = p[2]
    /\ simDone = FALSE
    /\ simResult = NoRat
    /\ simLevCalls = 0
    /\ levDone = FALSE
    /\ levResult = 0
    /\ TrendIdle
    /\ DmaIdle
    /\ ServerIdle

\* one call calculateSimilarity(str1, str2)
SimCall ==
    /\ ~simDone
    /\ LET r == calculateSimilarity(str1, str2)
       IN  /\ simResult' = r.value
           /\ simLevCalls' = r.levCalls
    /\ simDone' = TRUE
    /\ UNCHANGED <<str1, str2, levDone, levResult>>
    /\ UNCHANGED <<searchVars, trendVars, dmaVars, serverVars>>

SimNext == SimCall

SimSpec == SimInit /\ [][SimNext]_vars

(***************************************************************************)
(* LevSpec: levenshteinDistance as a pure function of two strings.         *)
(***************************************************************************)
LevChars == {"a", "b"}

LevStrings == StringsOver(LevChars, LevMaxLen)

LevInit ==
    /\ SearchIdle
    /\ str1 \in LevStrings
    /\ str2 \in LevStrings
    /\ simDone = FALSE
    /\ simResult = NoRat
    /\ simLevCalls = 0
    /\ levDone = FALSE
    /\ levResult = 0
    /\ TrendIdle
    /\ DmaIdle
    /\ ServerIdle

\* one call levenshteinDistance(str1, str2)
LevCall ==
    /\ ~levDone
    /\ levResult' = levenshteinDistance(str1, str2)
    /\ levDone' = TRUE
    /\ UNCHANGED <<str1, str2, simDone, simResult, simLevCalls>>
    /\ UNCHANGED <<searchVars, trendVars, dmaVars, serverVars>>

LevNext == LevCall

LevSpec == LevInit /\ [][LevNext]_vars

(***************************************************************************)
(* TrendSpec: getTrendAnalysis as a pure function of three values.         *)
(***************************************************************************)
TrendValues ==
    { Undefined, Null, NaN, Num(0),
      Num(2300000), Num(2300250), Num(2300251), Num(2300254),
      Num(2400000), Num(2450500), Num(2500000) }

TrendInit ==
    /\ SearchIdle
    /\ SimIdle
    /\ DmaIdle
    /\ ServerIdle
    /\ dma50 \in TrendValues
    /\ dma200 \in TrendValues
    /\ currentPrice \in TrendValues
    /\ trendDone = FALSE
    /\ trendResult = NoResult
    /\ trendComparisons = 0
    /\ trendDivisions = 0

\* one call getTrendAnalysis(dma50, dma200, currentPrice)
TrendCall ==
    /\ ~trendDone
    /\ LET r == getTrendAnalysis(dma50, dma200, currentPrice)
       IN  /\ trendResult' = r.result
           /\ trendComparisons' = r.comparisons
           /\ trendDivisions' = r.divisions
    /\ trendDone' = TRUE
    /\ UNCHANGED <<dma50, dma200, currentPrice>>
    /\ UNCHANGED <<searchVars, simVars, dmaVars, serverVars>>

TrendNext == TrendCall

TrendSpec == TrendInit /\ [][TrendNext]_vars

(***************************************************************************)
(* DmaSpec: calculateDMA as a pure function of a series and a period of at *)
(* least one day.                                                          *)
(***************************************************************************)
CloseValues == {1, 2, 4}

DmaSeries == UNION {[1..n -> [close : CloseValues]] : n \in 0..MaxSeries}

DmaInit ==
    /\ SearchIdle
    /\ SimIdle
    /\ TrendIdle
    /\ ServerIdle
    /\ priceData \in {AbsentData} \cup {PriceData(items) : items \in DmaSeries}
    /\ period \in 1..MaxPeriod
    /\ dmaDone = FALSE
    /\ dmaResult = NullDMA

\* one call calculateDMA(priceData, period)
DmaCall ==
    /\ ~dmaDone
    /\ dmaResult' = calculateDMA(priceData, period)
    /\ dmaDone' = TRUE
    /\ UNCHANGED <<priceData, period>>
    /\ UNCHANGED <<searchVars, simVars, trendVars, serverVars>>

DmaNext == DmaCall

DmaSpec == DmaInit /\ [][DmaNext]_vars

(***************************************************************************)
(* ServerSpec: the process from startServer() on: the connection to the    *)
(* database, app.listen, the signal handlers, and the requests the         *)
(* listening server dispatches, one at a time.                             *)
(***************************************************************************)
ServerDocs ==
    { [Name |-> <<"a", "b">>, Ticker |-> <<"T", "1">>, __v |-> 0],
      [Name |-> <<"b", "a">>, symbol |-> SegTop10],
      [Name |-> <<"a", "a">>, Ticker |-> SegSearch] }

ServerCorpora == UNION {[1..n -> ServerDocs] : n \in 0..MaxCorpus}

ApiStock == <<SegApi, SegStock>>

RequestPool ==
    { Request("GET", <<SegHealth>>, NoName),
      Request("GET", <<>>, NoName),
      Request("GET", <<<<"x">>>>, NoName),
      Request("GET", ApiStock, NoName),
      Request("GET", ApiStock \o <<SegTop10>>, NoName),
      Request("GET", ApiStock \o <<<<"t", "1">>>>, NoName),
      Request("GET", ApiStock \o <<<<"T", ".">>>>, NoName),
      Request("GET", ApiStock \o <<<<"x">>>>, NoName),
      Request("GET", ApiStock \o <<<<"t", "1">>, <<"x">>>>, NoName),
      Request("POST", ApiStock \o <<SegSearch>>, NameOf(<<"a", "b">>)),
      Request("GET", ApiStock \o <<SegSearch>>, NoName),
      Request("GET", ApiStock \o <<SegSearch>>, NameOf(<<"a", "b">>)),
      Request("GET", ApiStock \o <<SegSearch>>, NameOf(<<"a">>)),
      Request("GET", ApiStock \o <<SegSearch>>, NameOf(<<"b", "b">>)),
      Request("GET", ApiStock \o <<<<"S", "e", "a", "r", "c", "h">>>>,
              NameOf(<<"a", "b">>)) }

ServerInit ==
    /\ corpus \in ServerCorpora
    /\ name = NoName
    /\ pc = "idle"
    /\ searchName = <<>>
    /\ stock = NotFound
    /\ allStocks = <<>>
    /\ response = NoResponse
    /\ findOneCalls = 0
    /\ findCalls = 0
    /\ simCalls = 0
    /\ SimIdle
    /\ TrendIdle
    /\ DmaIdle
    /\ ServerIdle

ServerNext ==
    \/ ConnectSucceeds
    \/ ConnectFails
    \/ Listening
    \/ Signal
    \/ CloseDone
    \/ \E r \in RequestPool : Dispatch(r)
    \/ TickerAnswer
    \/ ListAnswer
    \/ SearchStep
    \/ Finish

ServerSpec == ServerInit /\ [][ServerNext]_vars

(***************************************************************************)
(* Vocabulary of the properties, stated without the operators above.       *)
(***************************************************************************)
\* t occurs in s as a contiguous run
IsSubstringOf(t, s) ==
    \E pre \in 0..Len(s) : \E post \in 0..Len(s) :
        /\ pre + Len(t) + post = Len(s)
        /\ \A k \in 1..Len(t) : s[pre + k] = t[k]

\* the words of wa that some word of wb contains or is contained in
MatchedWords(wa, wb) ==
    {k \in 1..Len(wa) :
        \E n \in 1..Len(wb) : IsSubstringOf(wa[k], wb[n]) \/ IsSubstringOf(wb[n], wa[k])}

\* every string one insertion, deletion or substitution away from s
OneEdit(s, chars) ==
    {SubSeq(s, 1, i - 1) \o SubSeq(s, i + 1, Len(s)) : i \in 1..Len(s)}
    \cup {SubSeq(s, 1, i - 1) \o <<c>> \o SubSeq(s, i + 1, Len(s)) :
             i \in 1..Len(s), c \in chars}
    \cup {SubSeq(s, 1, i) \o <<c>> \o SubSeq(s, i + 1, Len(s)) :
             i \in 0..Len(s), c \in chars}

\* every string at most k single-character edits away from s
RECURSIVE EditsWithin(_, _, _)
EditsWithin(s, k, chars) ==
    IF k = 0 THEN {s}
    ELSE LET prev == EditsWithin(s, k - 1, chars)
         IN  prev \cup UNION {OneEdit(t, chars) : t \in prev}

EditBalls ==
    [s \in LevStrings |-> [k \in 0..LevMaxLen |-> EditsWithin(s, k, LevChars)]]

\* the least number of single-character edits that turn a into b
MinimumEdits(a, b) ==
    CHOOSE k \in 0..LevMaxLen :
        /\ b \in EditBalls[a][k]
        /\ \A j \in 0..(k - 1) : b \notin EditBalls[a][j]

\* two characters that are the same letter, whatever their case
SameIgnoringCase(c, d) == c = d \/ {c, d} = {"a", "A"} \/ {c, d} = {"b", "B"}

\* s without its leading and trailing blanks
Stripped(s) ==
    LET inked == {i \in 1..Len(s) : s[i] # " "}
    IN  IF inked = {} THEN <<>>
        ELSE SubSeq(s, CHOOSE i \in inked : \A j \in inked : i <= j,
                       CHOOSE i \in inked : \A j \in inked : j <= i)

\* the request's query, as the search sees it
Query == Stripped(name.s)

BlankQuery == ~name.present \/ \A i \in 1..Len(name.s) : name.s[i] = " "

\* the documents whose Name is the query, case ignored
ExactHits ==
    {i \in 1..Len(corpus) :
        /\ Len(corpus[i]["Name"]) = Len(Query)
        /\ \A k \in 1..Len(Query) : SameIgnoringCase(corpus[i]["Name"][k], Query[k])}

\* the documents whose Name contains the query as a contiguous run, case ignored
SubstringHits ==
    {i \in 1..Len(corpus) :
        \E off \in 0..(Len(corpus[i]["Name"]) - Len(Query)) :
            \A k \in 1..Len(Query) :
                SameIgnoringCase(corpus[i]["Name"][off + k], Query[k])}

First(hits) == CHOOSE i \in hits : \A j \in hits : i <= j

\* the answer is a match, and it is the i-th document of the collection
ReturnedIs(i) ==
    /\ response.status = 200
    /\ response.data["Name"] = corpus[i]["Name"]
    /\ response.data["Ticker"] = corpus[i]["Ticker"]

\* the score of the i-th document against the lower-cased query
ScoreOf(i) ==
    calculateSimilarity(toLowerCase(Query), toLowerCase(corpus[i]["Name"])).value

\* the documents no other document outscores
TopScored ==
    {i \in 1..Len(corpus) : \A j \in 1..Len(corpus) : ~RatLess(ScoreOf(i), ScoreOf(j))}

Finished == pc = "done" /\ ~BlankQuery

(***************************************************************************)
(* C1: when some document's Name equals the trimmed query, case ignored,   *)
(* the search answers with the first such document in collection order,    *)
(* after the exact query alone: no partial query, no scoring, whatever     *)
(* characters the query holds.                                             *)
(***************************************************************************)
C1_ExactMatchFirst ==
    (Finished /\ ExactHits # {}) =>
        /\ ReturnedIs(First(ExactHits))
        /\ stock = [found |-> TRUE, doc |-> corpus[First(ExactHits)]]
        /\ response.searchQuery = Query
        /\ findOneCalls = 1
        /\ findCalls = 0
        /\ simCalls = 0

\* "a." finds "a." behind a document "ab" that a bare dot would match
C1_Witness ==
    /\ Finished
    /\ Query = <<"a", ".">>
    /\ Len(corpus) = 2
    /\ corpus[1]["Name"] = <<"a", "b">>
    /\ corpus[2]["Name"] = <<"a", ".">>
    /\ ExactHits = {2}
    /\ ReturnedIs(2)
    /\ corpus[1]["Ticker"] # corpus[2]["Ticker"]

(***************************************************************************)
(* C2: when no Name equals the query but some Name contains it (case       *)
(* ignored), the search answers with the first such document in collection *)
(* order, and no similarity score is computed.                             *)
(***************************************************************************)
C2_SubstringMatchFirst ==
    (Finished /\ ExactHits = {} /\ SubstringHits # {}) =>
        /\ ReturnedIs(First(SubstringHits))
        /\ stock = [found |-> TRUE, doc |-> corpus[First(SubstringHits)]]
        /\ findOneCalls = 2
        /\ findCalls = 0
        /\ simCalls = 0

\* two documents contain the query; the first is returned
C2_Witness ==
    /\ Finished
    /\ ExactHits = {}
    /\ SubstringHits = {1, 2}
    /\ corpus[1]["Ticker"] # corpus[2]["Ticker"]
    /\ ReturnedIs(1)
    /\ simCalls = 0

(***************************************************************************)
(* C3: when neither the exact nor the partial query finds a document,      *)
(* every document is scored against the lower-cased query and, if the best *)
(* score is above 0.3, the answer is the earliest document attaining it.   *)
(* The answer is determined by the collection and the query alone.         *)
(***************************************************************************)
C3_BestScoreFirst ==
    (Finished /\ ExactHits = {} /\ SubstringHits = {}) =>
        /\ simCalls = Len(corpus)
        /\ findCalls = 1
        /\ (TopScored # {} /\ RatLess(<<3, 10>>, ScoreOf(First(TopScored)))) =>
               ReturnedIs(First(TopScored))

\* two documents tie at the best score; the earlier one is returned
C3_Witness ==
    /\ Finished
    /\ ExactHits = {}
    /\ SubstringHits = {}
    /\ TopScored = {1, 2}
    /\ corpus[1]["Name"] # corpus[2]["Name"]
    /\ RatLess(<<3, 10>>, ScoreOf(1))
    /\ ReturnedIs(1)

(***************************************************************************)
(* C4: when neither the exact nor the partial query finds a document, the  *)
(* answer is 404 exactly when the collection is empty or no score is above *)
(* 0.3; a best score of exactly 0.3 is no match.  Otherwise it is 200.     *)
(***************************************************************************)
C4_NoMatchBelowFloor ==
    (Finished /\ ExactHits = {} /\ SubstringHits = {}) =>
        /\ response.status \in {200, 404}
        /\ (response.status = 404) <=>
               ( \/ Len(corpus) = 0
                 \/ \A i \in 1..Len(corpus) : ~RatLess(<<3, 10>>, ScoreOf(i)) )

\* the best score is exactly 0.3 and the answer is 404
C4_Witness ==
    /\ Finished
    /\ ExactHits = {}
    /\ SubstringHits = {}
    /\ TopScored # {}
    /\ RatEq(ScoreOf(First(TopScored)), <<3, 10>>)
    /\ response.status = 404

(***************************************************************************)
(* C5: a request whose name is missing, empty or only whitespace is        *)
(* answered 400, and at no time is a query or a similarity computation     *)
(* made for it.                                                            *)
(***************************************************************************)
C5_BlankRejected ==
    BlankQuery =>
        /\ pc \in {"start", "done"}
        /\ pc = "done" => response.status = 400
        /\ findOneCalls = 0
        /\ findCalls = 0
        /\ simCalls = 0

\* a name of two blanks, rejected
C5_Witness ==
    /\ name = NameOf(<<" ", " ">>)
    /\ Len(corpus) > 0
    /\ pc = "done"
    /\ response.status = 400
    /\ findOneCalls = 0

(***************************************************************************)
(* C6 as stated: a match is answered with exactly the attributes of the    *)
(* matched document, each with its stored value.                           *)
(***************************************************************************)
C6_AllAttributesForwarded ==
    response.status = 200 =>
        \E i \in 1..Len(corpus) : ReturnedIs(i) /\ response.data = corpus[i]

(***************************************************************************)
(* C6 amended: a match is answered with the attributes of the matched      *)
(* document other than "__v" and "similarity", each with its stored value, *)
(* and with nothing else.                                                  *)
(***************************************************************************)
C6_AttributesButInternal ==
    response.status = 200 =>
        \E i \in 1..Len(corpus) :
            /\ ReturnedIs(i)
            /\ DOMAIN response.data = DOMAIN corpus[i] \ {"__v", "similarity"}
            /\ \A k \in DOMAIN response.data : response.data[k] = corpus[i][k]

\* a document stored with "__v" and "similarity" is returned by the scoring stage
C6_Witness ==
    /\ response.status = 200
    /\ findCalls = 1
    /\ Len(corpus) = 1
    /\ DOMAIN corpus[1] = {"Name", "Ticker", "__v", "similarity"}
    /\ DOMAIN response.data = {"Name", "Ticker"}
    /\ response.data["Ticker"] = corpus[1]["Ticker"]

(***************************************************************************)
(* C7: calculateSimilarity returns 1 for equal strings (two empty strings  *)
(* included), else 0 when either string is empty, else 0.8 when one string *)
(* contains the other; on these three paths no edit distance is computed.  *)
(* similarity("tata motors", "tata motors ltd") = 0.8,                     *)
(* similarity("xyz", "") = 0 and similarity("abc", "abc") = 1.             *)
(***************************************************************************)
C7_EarlyReturns ==
    simDone =>
        /\ str1 = str2 => RatEq(simResult, <<1, 1>>) /\ simLevCalls = 0
        /\ (str1 # str2 /\ (Len(str1) = 0 \/ Len(str2) = 0)) =>
               RatEq(simResult, <<0, 1>>) /\ simLevCalls = 0
        /\ ( /\ str1 # str2 /\ Len(str1) > 0 /\ Len(str2) > 0
             /\ (IsSubstringOf(str1, str2) \/ IsSubstringOf(str2, str1)) ) =>
               RatEq(simResult, <<4, 5>>) /\ simLevCalls = 0
        /\ (str1 = TataMotors /\ str2 = TataMotorsLtd) => RatEq(simResult, <<4, 5>>)
        /\ (str1 = <<"x","y","z">> /\ str2 = <<>>) => RatEq(simResult, <<0, 1>>)
        /\ (str1 = <<"a","b","c">> /\ str2 = <<"a","b","c">>) =>
               RatEq(simResult, <<1, 1>>)

C7_Witness ==
    /\ simDone
    /\ str1 = TataMotors
    /\ str2 = TataMotorsLtd
    /\ RatEq(simResult, <<4, 5>>)
    /\ simLevCalls = 0

(***************************************************************************)
(* C8: for non-empty, unequal strings neither of which contains the other, *)
(* the score is min(1, (1 - levenshtein / max length) + (matched / max     *)
(* word count) * 0.3), matched counting the words of str1 that some word   *)
(* of str2 contains or is contained in; and every score lies in [0, 1].    *)
(* With d the distance, L the longer length, m the matched words and W the *)
(* larger word count, the uncapped score is                                *)
(* (10 W (L - d) + 3 m L) / (10 L W).                                      *)
(***************************************************************************)
C8_Composite(a, b) ==
    /\ a # b /\ Len(a) > 0 /\ Len(b) > 0
    /\ ~IsSubstringOf(a, b) /\ ~IsSubstringOf(b, a)

C8_CompositeScore ==
    simDone =>
        /\ simResult[2] > 0
        /\ 0 <= simResult[1] /\ simResult[1] <= simResult[2]
        /\ C8_Composite(str1, str2) =>
              LET L == Max(Len(str1), Len(str2))
                  d == levenshteinDistance(str1, str2)
                  W == Max(Len(split(str1)), Len(split(str2)))
                  m == Cardinality(MatchedWords(split(str1), split(str2)))
                  num == 10 * W * (L - d) + 3 * m * L
                  den == 10 * L * W
              IN  IF num >= den
                  THEN simResult[1] = simResult[2]
                  ELSE simResult[1] * den = num * simResult[2]

\* "a b" against "b a": distance 2 of 3, both words matched: 1/3 + 0.3
C8_Witness ==
    /\ simDone
    /\ C8_Composite(str1, str2)
    /\ str1 = <<"a", " ", "b">>
    /\ str2 = <<"b", " ", "a">>
    /\ RatEq(simResult, <<19, 30>>)

(***************************************************************************)
(* C9: levenshteinDistance(a, b) is the least number of single-character   *)
(* insertions, deletions and substitutions that turn a into b; it is 0     *)
(* exactly when a = b, the other string's length when one string is empty, *)
(* and never more than the longer length.                                  *)
(***************************************************************************)
C9_MinimumEdits ==
    levDone =>
        /\ levResult = MinimumEdits(str1, str2)
        /\ (levResult = 0) <=> (str1 = str2)
        /\ Len(str1) = 0 => levResult = Len(str2)
        /\ Len(str2) = 0 => levResult = Len(str1)
        /\ levResult <= Max(Len(str1), Len(str2))

\* "ab" to "ba": two edits, no single one
C9_Witness ==
    /\ levDone
    /\ str1 = <<"a", "b">>
    /\ str2 = <<"b", "a">>
    /\ levResult = 2

(***************************************************************************)
(* C10: when any of the three arguments of getTrendAnalysis is missing,    *)
(* null, zero or otherwise falsy, the result has trend "unknown", signal   *)
(* "insufficient_data", three null booleans, no percentage field and the   *)
(* three arguments as given; no comparison and no division is made.        *)
(***************************************************************************)
Missing(x) == x \in {Undefined, Null, NaN, Num(0)}

PercentKeys == {"dma50PercentDiff", "priceVs50Percent", "priceVs200Percent"}

C10_InsufficientData ==
    (trendDone /\ (Missing(dma50) \/ Missing(dma200) \/ Missing(currentPrice))) =>
        /\ trendResult["trend"] = "unknown"
        /\ trendResult["signal"] = "insufficient_data"
        /\ trendResult["dma50Above200"] = Null
        /\ trendResult["priceAbove50"] = Null
        /\ trendResult["priceAbove200"] = Null
        /\ DOMAIN trendResult \cap PercentKeys = {}
        /\ trendResult["dma50"] = dma50
        /\ trendResult["dma200"] = dma200
        /\ trendResult["currentPrice"] = currentPrice
        /\ trendComparisons = 0
        /\ trendDivisions = 0

\* classify(null, 2300, 2500)
C10_Witness ==
    /\ trendDone
    /\ dma50 = Null
    /\ dma200 = Num(2300000)
    /\ currentPrice = Num(2500000)
    /\ trendResult["signal"] = "insufficient_data"
    /\ trendResult["dma50"] = Null

(***************************************************************************)
(* C11: with all three values present and non-zero, and S = dma50 >        *)
(* dma200, P = currentPrice > dma50, L = currentPrice > dma200, the trend  *)
(* and signal are those of the first row that matches in                   *)
(*   S and P and L -> bullish/strong_buy;  S and L -> bullish/buy;         *)
(*   S -> bullish/weak_buy;  not S, not P, not L -> bearish/strong_sell;   *)
(*   not S, not L -> bearish/sell;  not S -> bearish/weak_sell             *)
(* and the three booleans of the result are S, P and L.                    *)
(***************************************************************************)
AllPresent == ~Missing(dma50) /\ ~Missing(dma200) /\ ~Missing(currentPrice)

ShortAboveLong == dma50.v > dma200.v

ValueAboveShort == currentPrice.v > dma50.v

ValueAboveLong == currentPrice.v > dma200.v

DecisionTable ==
    LET S == ShortAboveLong
        P == ValueAboveShort
        L == ValueAboveLong
    IN  << <<S /\ P /\ L, "bullish", "strong_buy">>,
           <<S /\ L, "bullish", "buy">>,
           <<S, "bullish", "weak_buy">>,
           <<~S /\ ~P /\ ~L, "bearish", "strong_sell">>,
           <<~S /\ ~L, "bearish", "sell">>,
           <<~S, "bearish", "weak_sell">> >>

FirstMatchingRow ==
    CHOOSE i \in 1..Len(DecisionTable) :
        /\ DecisionTable[i][1]
        /\ \A j \in 1..(i - 1) : ~DecisionTable[j][1]

C11_DecisionTable ==
    (trendDone /\ AllPresent) =>
        /\ \E i \in 1..Len(DecisionTable) : DecisionTable[i][1]
        /\ trendResult["trend"] = DecisionTable[FirstMatchingRow][2]
        /\ trendResult["signal"] = DecisionTable[FirstMatchingRow][3]
        /\ trendResult["dma50Above200"] = Bool(ShortAboveLong)
        /\ trendResult["priceAbove50"] = Bool(ValueAboveShort)
        /\ trendResult["priceAbove200"] = Bool(ValueAboveLong)

\* getTrendAnalysis(2450.50, 2300.25, 2400): S holds and L holds but P does
\* not, so the second row is the first that matches
C11_Witness ==
    /\ trendDone
    /\ dma50 = Num(2450500)
    /\ dma200 = Num(2300250)
    /\ currentPrice = Num(2400000)
    /\ FirstMatchingRow = 2
    /\ trendResult["signal"] = "buy"

(***************************************************************************)
(* C12: no call of getTrendAnalysis returns trend "neutral" or signal      *)
(* "hold"; the trend is always one of unknown, bullish and bearish, and    *)
(* it is bullish or bearish once all three values are present.             *)
(***************************************************************************)
C12_NeverNeutral ==
    trendDone =>
        /\ trendResult["trend"] # "neutral"
        /\ trendResult["signal"] # "hold"
        /\ trendResult["trend"] \in {"unknown", "bullish", "bearish"}
        /\ AllPresent => trendResult["trend"] \in {"bullish", "bearish"}

\* getTrendAnalysis(2450.50, 2300.25, 2300): only S holds, so only the
\* catch-all row of the bullish branch matches
C12_Witness ==
    /\ trendDone
    /\ dma50 = Num(2450500)
    /\ dma200 = Num(2300250)
    /\ currentPrice = Num(2300000)
    /\ trendResult["trend"] = "bullish"
    /\ trendResult["signal"] = "weak_buy"

(***************************************************************************)
(* C13: with all three values present and non-zero, the result carries the *)
(* three percentages (dma50 - dma200) / dma200 * 100, (currentPrice -      *)
(* dma50) / dma50 * 100 and (currentPrice - dma200) / dma200 * 100, each   *)
(* a number of hundredths nearest to the exact quotient, whichever row of  *)
(* the decision table applied.                                             *)
(***************************************************************************)
\* p, in thousandths of a percent, is a whole number of hundredths and no
\* other number of hundredths is nearer to (a - b) / b * 100
NearestHundredth(p, a, b) ==
    /\ p.t = "num"
    /\ p.v % 10 = 0
    /\ Abs((p.v \div 10) * b.v - (a.v - b.v) * 10000) <= Abs(b.v) \div 2

C13_Percentages ==
    (trendDone /\ AllPresent) =>
        /\ PercentKeys \subseteq DOMAIN trendResult
        /\ NearestHundredth(trendResult["dma50PercentDiff"], dma50, dma200)
        /\ NearestHundredth(trendResult["priceVs50Percent"], currentPrice, dma50)
        /\ NearestHundredth(trendResult["priceVs200Percent"], currentPrice, dma200)

\* getTrendAnalysis(2300, 2500, 2450.50): the bearish/sell row applies, the
\* first percentage is negative and the second is 6.5434..., rounded up
C13_Witness ==
    /\ trendDone
    /\ dma50 = Num(2300000)
    /\ dma200 = Num(2500000)
    /\ currentPrice = Num(2450500)
    /\ trendResult["signal"] = "sell"
    /\ trendResult["dma50PercentDiff"] = Num(0 - 8000)
    /\ trendResult["priceVs50Percent"] = Num(6540)
    /\ trendResult["priceVs200Percent"] = Num(0 - 1980)

(***************************************************************************)
(* C14: getTrendAnalysis(2450.50, 2300.25, 2500.00) returns trend bullish, *)
(* signal strong_buy, three true booleans and the percentages 6.52, 2.02   *)
(* and 8.68.                                                               *)
(***************************************************************************)
IsReadmeExample ==
    /\ trendDone
    /\ dma50 = Num(2450500)
    /\ dma200 = Num(2300250)
    /\ currentPrice = Num(2500000)

ReadmeExampleClassified ==
    /\ trendResult["trend"] = "bullish"
    /\ trendResult["signal"] = "strong_buy"
    /\ trendResult["dma50Above200"] = Bool(TRUE)
    /\ trendResult["priceAbove50"] = Bool(TRUE)
    /\ trendResult["priceAbove200"] = Bool(TRUE)

C15_TrendByAverages ==
    (trendDone /\ AllPresent) =>
        /\ trendResult["trend"] = "bullish" <=> dma50.v > dma200.v
        /\ trendResult["trend"] = "bearish" <=> dma50.v < dma200.v
        /\ trendResult["signal"] = "strong_sell" <=>
               /\ dma50.v < dma200.v
               /\ currentPrice.v < dma50.v
               /\ currentPrice.v < dma200.v

(***************************************************************************)
(* C17: for a period of at least 1, calculateDMA returns null exactly when *)
(* the series is absent or has fewer than period entries; otherwise it     *)
(* returns the arithmetic mean of the close values of the last period      *)
(* entries, and any series with the same last period entries has the same  *)
(* result.                                                                 *)
(***************************************************************************)
\* the last n entries of s, oldest first
LastEntries(s, n) == [k \in 1..n |-> s[Len(s) - n + k]]

RECURSIVE TotalClose(_, _)
\* the sum of the close values of the first n entries of s
TotalClose(s, n) == IF n = 0 THEN 0 ELSE s[n].close + TotalClose(s, n - 1)

TooShort == ~priceData.present \/ Len(priceData.items) < period

C17_MovingAverage ==
    (dmaDone /\ period >= 1) =>
        /\ dmaResult.null <=> TooShort
        /\ ~TooShort =>
             /\ dmaResult.value[1] * period =
                    TotalClose(LastEntries(priceData.items, period), period)
                        * dmaResult.value[2]
             /\ \A q \in DmaSeries :
                    (/\ Len(q) >= period
                     /\ LastEntries(q, period) = LastEntries(priceData.items, period))
                        => RatEq(calculateDMA(PriceData(q), period).value, dmaResult.value)

\* calculateDMA([{close: 1}, {close: 2}, {close: 4}], 2) is 6 / 2
C17_Witness ==
    /\ dmaDone
    /\ period = 2
    /\ priceData = PriceData(<<[close |-> 1], [close |-> 2], [close |-> 4]>>)
    /\ ~dmaResult.null
    /\ RatEq(dmaResult.value, <<3, 1>>)

(***************************************************************************)
(* C19: calculateSimilarity returns 1 only for two equal strings; every    *)
(* pair of different strings scores strictly below 1.                      *)
(***************************************************************************)
C19_OneOnlyWhenEqual ==
    (simDone /\ str1 # str2) => RatLess(simResult, <<1, 1>>)

(***************************************************************************)
(* C20: calculateSimilarity is symmetric: the score of (str1, str2) is the *)
(* score of (str2, str1).                                                  *)
(***************************************************************************)
C20_Symmetric ==
    simDone => RatEq(simResult, calculateSimilarity(str2, str1).value)

(***************************************************************************)
(* C16: a request GET /api/stock/top10 is served by a top-10 endpoint of   *)
(* its own and is dispatched neither to the ticker lookup nor to the name  *)
(* search; a request GET /api/stock/search is dispatched to the name       *)
(* search and never to the ticker lookup.                                  *)
(***************************************************************************)
IsGet(path) == req.method = "GET" /\ req.path = path

C16_Top10Dedicated ==
    /\ IsGet(<<SegApi, SegStock, SegTop10>>) => route \notin {"ticker", "search"}
    /\ IsGet(<<SegApi, SegStock, SegSearch>>) => route = "search"

(***************************************************************************)
(* C18: the server starts listening only after connectDB has completed     *)
(* successfully; when connectDB fails the process exits with code 1 and    *)
(* never starts listening.                                                 *)
(***************************************************************************)
C18_ListenAfterConnect ==
    /\ [](http # "off" => dbConnect = "resolved")
    /\ [](dbConnect = "rejected" => (exited /\ exitCode = 1 /\ http = "off"))
    /\ [][(http = "off" /\ http' # "off") => dbConnect' = "resolved"]_vars
    /\ [][dbConnect = "rejected" => (dbConnect' = "rejected" /\ http' = "off")]_vars

\* connectDB has failed: the process is gone with code 1, nothing listens
C18_Witness ==
    /\ dbConnect = "rejected"
    /\ exited
    /\ exitCode = 1
    /\ http = "off"

\* the other case: the server listens, and connectDB had succeeded
C18_WitnessListening ==
    /\ http = "listening"
    /\ dbConnect = "resolved"
    /\ ~exited

(***************************************************************************)
(* C21: in every full result of getTrendAnalysis the three booleans agree  *)
(* with the values echoed in the same result: dma50Above200 is true        *)
(* exactly when the echoed dma50 is greater than the echoed dma200,        *)
(* priceAbove50 exactly when the echoed currentPrice is greater than the   *)
(* echoed dma50, and priceAbove200 exactly when the echoed currentPrice is *)
(* greater than the echoed dma200.                                         *)
(***************************************************************************)
IsFullResult == trendDone /\ trendResult["signal"] # "insufficient_data"

C21_BooleansMatchEchoes ==
    IsFullResult =>
        /\ trendResult["dma50Above200"] =
               Bool(trendResult["dma50"].v > trendResult["dma200"].v)
        /\ trendResult["priceAbove50"] =
               Bool(trendResult["currentPrice"].v > trendResult["dma50"].v)
        /\ trendResult["priceAbove200"] =
               Bool(trendResult["currentPrice"].v > trendResult["dma200"].v)

=============================================================================
